---- MODULE Spec2Model ----
(***************************************************************************)
(* A model of scripts/pull-data.js, the data pull of the Saltbox marketing *)
(* dashboard: the run of main() over the month windows (baseline load,     *)
(* credential checks, reuse / recompute / fallback per month, the write of *)
(* the dataset file) and the functions it calls, each also on its own:     *)
(* calculateKPIs in binary64 arithmetic, getMonthRange and                 *)
(* getMemberCounts, and the pagination loops of runSuiteQL and             *)
(* hubspotSearch.                                                          *)
(*                                                                         *)
(* Month keys "YYYY-MM" are the integers YYYY*100+MM and dates             *)
(* "YYYY-MM-DD" the integers YYYY*10000+MM*100+DD: for four-digit years    *)
(* the string order of the source is the integer order of the model.       *)
(***************************************************************************)
EXTENDS Integers, Sequences, FiniteSets, TLC

VARIABLES
  today,       \* new Date(): [year, month], month 0-based as getMonth()
  env,         \* process.env: the names that hold a non-empty value
  file,        \* data/dashboard-data.json on disk
  pc,          \* the position of main()
  months,      \* const months
  existing,    \* let existing
  result,      \* const result
  idx,         \* the for-of position in months (1-based)
  leads,       \* const leads of the month in progress
  attempted,   \* month keys for which a source request has been issued
  srcFailed,   \* month keys during whose pulls a source call failed
  log,         \* the console: one line per month outcome, in order
  exitCode,    \* the process exit code, -1 while running
  writes,      \* completed fs.writeFileSync calls
  clock,       \* the wall clock, in ticks
  kpc,         \* the position of a call of calculateKPIs
  kIn,         \* its arguments
  kAlloc,      \* corpSpend, totalLocSpend, corpAllocation, salaryAllocation
  kAcc,        \* data and the tot* accumulators after the loop
  kOut,        \* the value returned
  ucall,       \* a call of a utility: the function and its arguments
  uret,        \* the value it returned
  udone,       \* the call has returned
  pcall,       \* a paginated pull: the function and its upstream
  ppc,         \* the position of the pull
  ploc,        \* its locals
  psent,       \* the requests it has sent
  pserved,     \* the items of the pages the upstream has served, and
               \* whether the last page said that none follows
  pret         \* the value returned

runVars == <<today, env, file, pc, months, existing, result, idx, leads,
             attempted, srcFailed, log, exitCode, writes, clock>>

kpiVars == <<kpc, kIn, kAlloc, kAcc, kOut>>

utilVars == <<ucall, uret, udone>>

pageVars == <<pcall, ppc, ploc, psent, pserved, pret>>

vars == <<runVars, kpiVars, utilVars, pageVars>>

(***************************************************************************)
(* Bounds of the model.                                                    *)
(***************************************************************************)
\* The lookback of a run.  The source sets MONTHS_BACK = 12 (line 82); the
\* run is checked for a shorter lookback, one older window and more.
MONTHS_BACK == 3

(***************************************************************************)
(* CONFIG                                                                  *)
(***************************************************************************)
LOCATIONS ==
  <<"ATL-UWS", "ATL-WSP", "DAL-CAR", "DAL-FB", "DC-ALX", "DEN-PH",
    "LA-DUA", "LA-TOR", "MIA-DR", "PHX-ST", "SEA-SODO">>

NETSUITE_ENV ==
  <<"NETSUITE_ACCOUNT_ID", "NETSUITE_CONSUMER_KEY", "NETSUITE_CONSUMER_SECRET",
    "NETSUITE_TOKEN_ID", "NETSUITE_TOKEN_SECRET">>

HUBSPOT_ENV == "HUBSPOT_TOKEN"

RequiredEnv == {NETSUITE_ENV[i] : i \in 1..Len(NETSUITE_ENV)} \cup {HUBSPOT_ENV}

(***************************************************************************)
(* UTILITIES                                                               *)
(***************************************************************************)
IsLeapYear(yyyy) == (yyyy % 4 = 0 /\ yyyy % 100 # 0) \/ yyyy % 400 = 0

\* new Date(yyyy, mon0 + 1, 0).getDate(): the last day of month mon0 (0-based)
LastDayOfMonth(yyyy, mon0) ==
  IF mon0 \in {0, 2, 4, 6, 7, 9, 11} THEN 31
  ELSE IF mon0 # 1 THEN 30
  ELSE IF IsLeapYear(yyyy) THEN 29 ELSE 28

\* a window counted from the current month instead of the month before it
MonthWindowFromCurrent(now, i) ==
  LET total == now.year * 12 + now.month - (i - 1)
      yyyy == total \div 12
      mon0 == total % 12
      ym == yyyy * 100 + (mon0 + 1)
  IN [key |-> ym, start |-> ym * 100 + 1,
      end |-> ym * 100 + LastDayOfMonth(yyyy, mon0)]

\* one iteration of getMonthRange: new Date(now.getFullYear(),
\* now.getMonth() - i, 1) normalises a month index outside 0..11 into the
\* neighbouring years
MonthWindow(now, i) ==
  LET total == now.year * 12 + now.month - i
      yyyy == total \div 12
      mon0 == total % 12
      ym == yyyy * 100 + (mon0 + 1)
  IN [key |-> ym, start |-> ym * 100 + 1,
      end |-> ym * 100 + LastDayOfMonth(yyyy, mon0)]

\* for (let i = monthsBack; i >= 1; i--) months.push(...)
getMonthRange(monthsBack, now) ==
  [j \in 1..monthsBack |-> MonthWindow(now, monthsBack - j + 1)]

\* env(name): the value is missing (undefined or empty) and required
envMissing(e, name) == name \notin e

(***************************************************************************)
(* JavaScript numbers.  The amounts of the model are non-negative and      *)
(* finite, and the arithmetic on them is IEEE-754 binary64: a number is    *)
(* [m, e], the value m * 2^e with m a 53-bit significand (2^52 <= m <      *)
(* 2^53) held as four limbs of 14 bits, least significant first, or zero.  *)
(* Every operation computes the exact result and rounds it to the nearest  *)
(* number, ties to the even significand.                                   *)
(***************************************************************************)
LimbBits == 2 * 7

Base == 2^LimbBits

\* the significand of a binary64 number has 53 bits
MantBits == 52 + 1

Pow2(n) == 2^n

RECURSIVE Propagate(_, _)
Propagate(s, c) ==
  IF s = << >>
  THEN IF c = 0 THEN << >> ELSE <<c % Base>> \o Propagate(<< >>, c \div Base)
  ELSE LET t == Head(s) + c IN <<t % Base>> \o Propagate(Tail(s), t \div Base)

Limb(a, j) == IF j >= 1 /\ j <= Len(a) THEN a[j] ELSE 0

RECURSIVE TopLimb(_, _)
TopLimb(a, j) == IF j = 0 THEN 0 ELSE IF a[j] # 0 THEN j ELSE TopLimb(a, j - 1)

\* a without its leading zero limbs
BNTrim(a) == SubSeq(a, 1, TopLimb(a, Len(a)))

BNFromInt(n) == Propagate(<<n>>, 0)

BNAdd(a, b) ==
  LET n == IF Len(a) > Len(b) THEN Len(a) ELSE Len(b)
  IN Propagate([j \in 1..n |-> Limb(a, j) + Limb(b, j)], 0)

RECURSIVE BNCmpFrom(_, _, _)
BNCmpFrom(a, b, j) ==
  IF j = 0 THEN 0
  ELSE IF Limb(a, j) > Limb(b, j) THEN 1
  ELSE IF Limb(a, j) < Limb(b, j) THEN -1
  ELSE BNCmpFrom(a, b, j - 1)

BNCmp(a, b) == BNCmpFrom(a, b, IF Len(a) > Len(b) THEN Len(a) ELSE Len(b))

RECURSIVE BNSubFrom(_, _, _, _)
BNSubFrom(a, b, j, borrow) ==
  IF j > Len(a) THEN << >>
  ELSE LET t == a[j] - Limb(b, j) - borrow
       IN <<IF t < 0 THEN t + Base ELSE t>>
            \o BNSubFrom(a, b, j + 1, IF t < 0 THEN 1 ELSE 0)

\* a - b for a >= b
BNSub(a, b) == BNTrim(BNSubFrom(a, b, 1, 0))

RECURSIVE ColSum(_, _, _, _)
ColSum(a, b, k, i) ==
  IF i > Len(a) THEN 0
  ELSE (IF k - i + 1 >= 1 /\ k - i + 1 <= Len(b) THEN a[i] * b[k - i + 1] ELSE 0)
       + ColSum(a, b, k, i + 1)

\* schoolbook product of two numbers of at most four limbs each
BNMul(a, b) ==
  IF Len(a) = 0 \/ Len(b) = 0 THEN << >>
  ELSE Propagate([k \in 1..(Len(a) + Len(b) - 1) |-> ColSum(a, b, k, 1)], 0)

RECURSIVE BitLenInt(_)
BitLenInt(x) == IF x = 0 THEN 0 ELSE 1 + BitLenInt(x \div 2)

BNBitLen(a) ==
  LET t == TopLimb(a, Len(a))
  IN IF t = 0 THEN 0 ELSE LimbBits * (t - 1) + BitLenInt(a[t])

BNShiftLeft(a, s) ==
  LET q == s \div LimbBits
      p == Pow2(s % LimbBits)
      n == Len(a)
  IN BNTrim([j \in 1..(n + q + 1) |->
               LET i == j - q
               IN ((Limb(a, i) * p) % Base) + ((Limb(a, i - 1) * p) \div Base)])

BNShiftRight(a, s) ==
  LET q == s \div LimbBits
      r == s % LimbBits
      p == Pow2(r)
      n == Len(a)
  IN [j \in 1..(IF n > q THEN n - q ELSE 0) |->
        (Limb(a, j + q) \div p) + ((Limb(a, j + q + 1) % p) * Pow2(LimbBits - r))]

\* bit i (0-based) of a
BNBit(a, i) ==
  IF i < 0 THEN 0
  ELSE (Limb(a, i \div LimbBits + 1) \div Pow2(i % LimbBits)) % 2

\* some bit below bit n of a is set
BNLowBits(a, n) ==
  IF n <= 0 THEN FALSE
  ELSE LET q == n \div LimbBits
           r == n % LimbBits
       IN \/ \E j \in 1..q : Limb(a, j) # 0
          \/ Limb(a, q + 1) % Pow2(r) # 0

RECURSIVE ShortDivFrom(_, _, _, _)
\* the quotient limbs (most significant first consumed) and the remainder of
\* a divided by the one-limb d
ShortDivFrom(a, d, j, rem) ==
  IF j = 0 THEN [q |-> << >>, r |-> rem]
  ELSE LET t == rem * Base + a[j]
           rest == ShortDivFrom(a, d, j - 1, t % d)
       IN [q |-> Append(rest.q, t \div d), r |-> rest.r]

BNShortDiv(a, d) == ShortDivFrom(a, d, Len(a), 0)

RECURSIVE LongDivFrom(_, _, _, _)
\* binary long division: n more quotient bits of rem / d, rem < 2d
LongDivFrom(rem, d, n, q) ==
  IF n = 0 THEN [q |-> q, r |-> rem]
  ELSE IF Len(q) >= 0 /\ BNCmp(rem, d) >= 0
  THEN LongDivFrom(BNShiftLeft(BNSub(rem, d), 1), d, n - 1,
                   BNAdd(BNShiftLeft(q, 1), <<1>>))
  ELSE LongDivFrom(BNShiftLeft(rem, 1), d, n - 1, BNShiftLeft(q, 1))

Mant4(a) == [j \in 1..4 |-> Limb(a, j)]

Zero == [m |-> <<0, 0, 0, 0>>, e |-> 0]

IsZero(x) == x.m = <<0, 0, 0, 0>>

\* the double nearest to M * 2^E (plus a positive fraction below one unit of
\* M when sticky), ties to the even mantissa
RoundToDouble(M, E, sticky) ==
  LET L == BNBitLen(M)
  IN IF L = 0 THEN Zero
     ELSE IF L <= MantBits
     THEN [m |-> Mant4(BNShiftLeft(M, MantBits - L)), e |-> E - (MantBits - L)]
     ELSE LET s == L - MantBits
              q == BNShiftRight(M, s)
              half == BNBit(M, s - 1) = 1
              st == sticky \/ BNLowBits(M, s - 1)
              up == half /\ (st \/ BNBit(q, 0) = 1)
              q1 == IF up THEN BNAdd(q, <<1>>) ELSE q
          IN IF BNBitLen(q1) > MantBits
             THEN [m |-> Mant4(BNShiftRight(q1, 1)), e |-> E + s + 1]
             ELSE [m |-> Mant4(q1), e |-> E + s]

\* the double of an integer 0 <= n < 2^31
FromInt(n) == RoundToDouble(BNFromInt(n), 0, FALSE)

\* x + y
fadd(x, y) ==
  IF IsZero(x) THEN y
  ELSE IF IsZero(y) THEN x
  ELSE LET hi == IF x.e >= y.e THEN x ELSE y
           lo == IF x.e >= y.e THEN y ELSE x
           d == hi.e - lo.e
       IN IF d > MantBits + 2 THEN hi
          ELSE RoundToDouble(BNAdd(BNShiftLeft(hi.m, d), lo.m), lo.e, FALSE)

\* x * y
fmul(x, y) ==
  IF IsZero(x) \/ IsZero(y) THEN Zero
  ELSE RoundToDouble(BNMul(x.m, y.m), x.e + y.e, FALSE)

\* x / y for y > 0
fdiv(x, y) ==
  IF IsZero(x) THEN Zero
  ELSE IF y.m[1] = 0 /\ y.m[2] = 0 /\ y.m[3] % Pow2(11) = 0
  THEN \* the divisor is d * 2^(y.e + 39) with d of one limb: short division
       LET d == (y.m[3] \div Pow2(11)) + y.m[4] * Pow2(3)
           r == BNShortDiv(BNShiftLeft(x.m, 16), d)
       IN RoundToDouble(r.q, x.e - y.e - 39 - 16, r.r # 0)
  ELSE LET r == LongDivFrom(x.m, y.m, MantBits + 3, << >>)
       IN RoundToDouble(r.q, x.e - y.e - (MantBits + 2), BNBitLen(r.r) # 0)

\* x > y
fgt(x, y) ==
  IF IsZero(x) THEN FALSE
  ELSE IF IsZero(y) THEN TRUE
  ELSE IF x.e # y.e THEN x.e > y.e
  ELSE BNCmp(x.m, y.m) > 0

\* Math.round(x) for x >= 0: the nearest integer, a tie going up
MathRound(x) ==
  IF IsZero(x) \/ x.e >= 0 THEN x
  ELSE LET s == 0 - x.e
           q == BNShiftRight(x.m, s)
       IN RoundToDouble(BNAdd(q, <<BNBit(x.m, s - 1)>>), 0, FALSE)

(***************************************************************************)
(* Values stored per month key.  A KPI record is kept symbolic in the run: *)
(* src "baseline" is a record read from the file, src "computed" is what   *)
(* calculateKPIs returned for the month's pulled maps, with the pulls that *)
(* were cut short by a source error marked "partial"; "undefined" is the   *)
(* JavaScript undefined.                                                   *)
(***************************************************************************)
Undefined == [src |-> "undefined", key |-> 0, leads |-> "na", newMembers |-> "na"]

BaselineRecord(k) == [src |-> "baseline", key |-> k, leads |-> "na", newMembers |-> "na"]

EmptyMap == [k \in {} |-> Undefined]

\* obj[k]: undefined for a missing property
Get(map, k) == IF k \in DOMAIN map THEN map[k] ELSE Undefined

\* obj[k] = v
Put(map, k, v) == [x \in DOMAIN map \cup {k} |-> IF x = k THEN v ELSE map[x]]

Truthy(v) == v.src # "undefined"

\* JSON.stringify leaves out the properties whose value is undefined
Defined(map) == [k \in {x \in DOMAIN map : Truthy(map[x])} |-> map[k]]

(***************************************************************************)
(* The dataset file and the baseline.  A JSON value of the file is         *)
(* [isNull, hasData, data, hasTotals, totals, months, lastUpdated]: null,  *)
(* or an object that may lack its data or its totals property.             *)
(***************************************************************************)
\* let existing = { months: [], locations: LOCATIONS, data: {}, totals: {} }
DefaultExisting ==
  [isNull |-> FALSE, hasData |-> TRUE, data |-> EmptyMap,
   hasTotals |-> TRUE, totals |-> EmptyMap, months |-> << >>, lastUpdated |-> -1]

\* if (fs.existsSync(dataPath)) { try { existing = JSON.parse(...) } catch {} }
LoadExisting(f) ==
  IF f.exists /\ f.parses THEN f.value ELSE DefaultExisting

\* a result that starts from the baseline's months instead of empty mappings
NewResultMerged(ms, t) ==
  [isNull |-> FALSE, hasData |-> TRUE,
   data |-> IF existing.hasData THEN existing.data ELSE EmptyMap,
   hasTotals |-> TRUE,
   totals |-> IF existing.hasTotals THEN existing.totals ELSE EmptyMap,
   months |-> [j \in 1..Len(ms) |-> ms[j].key], lastUpdated |-> t]

\* const result = { lastUpdated: new Date().toISOString(), months: ..., data: {}, totals: {} }
NewResult(ms, t) ==
  [isNull |-> FALSE, hasData |-> TRUE, data |-> EmptyMap,
   hasTotals |-> TRUE, totals |-> EmptyMap,
   months |-> [j \in 1..Len(ms) |-> ms[j].key], lastUpdated |-> t]

\* JSON.stringify(result, null, 2) as the next run would parse it
Stringify(r) ==
  [r EXCEPT !.data = Defined(r.data), !.totals = Defined(r.totals)]

\* only the last window counted as recent
isRecentLastOnly(ms, i) == i = Len(ms)

\* month === months[months.length - 1] || month === months[months.length - 2]
isRecent(ms, i) == i = Len(ms) \/ i = Len(ms) - 1

\* existing.data?.[month.key], for an existing that is not null
CachedRecord(ex, k) == IF ex.hasData THEN Get(ex.data, k) ELSE Undefined

\* the cache test without the look at the baseline's data
UseCachedAnyOlder(ex, ms, i) == ~isRecent(ms, i)

\* if (existing.data?.[month.key] && !isRecent)
UseCached(ex, ms, i) == Truthy(CachedRecord(ex, ms[i].key)) /\ ~isRecent(ms, i)

\* result.data[k] = existing.data[k]; result.totals[k] = existing.totals[k]
\* (lines 448-449), for an existing that has a totals object
CopyCached(r, ex, k) ==
  [r EXCEPT !.data = Put(@, k, Get(ex.data, k)),
            !.totals = Put(@, k, Get(ex.totals, k))]

\* a fallback that copies the data entry and leaves the totals entry out
CopyFallbackDataOnly(r, ex, k) ==
  [r EXCEPT !.data = Put(@, k, Get(ex.data, k))]

\* the same two assignments in the catch block (lines 480-481)
CopyFallback(r, ex, k) ==
  [r EXCEPT !.data = Put(@, k, Get(ex.data, k)),
            !.totals = Put(@, k, Get(ex.totals, k))]

\* const { data, totals } = calculateKPIs(...); result.data[k] = data;
\* result.totals[k] = totals
StoreComputed(r, k, ld, nm) ==
  LET rec == [src |-> "computed", key |-> k, leads |-> ld, newMembers |-> nm]
  IN [r EXCEPT !.data = Put(@, k, rec), !.totals = Put(@, k, rec)]

(***************************************************************************)
(* The run of main().                                                      *)
(***************************************************************************)
Today == [year |-> 2026, month |-> 1]

WindowKeys == {getMonthRange(MONTHS_BACK, Today)[j].key : j \in 1..MONTHS_BACK}

\* the month just before the lookback window: a baseline of an earlier run
\* holds it
OlderKey == MonthWindow(Today, MONTHS_BACK + 1).key

BaselineKeys == WindowKeys \cup {OlderKey}

BaselineMap(D) == [k \in D |-> BaselineRecord(k)]

JsonObject(hasD, D, hasT, T) ==
  [isNull |-> FALSE, hasData |-> hasD, data |-> BaselineMap(D),
   hasTotals |-> hasT, totals |-> BaselineMap(T), months |-> << >>,
   lastUpdated |-> -1]

\* the contents the file can have when the run starts
BaselineFiles ==
  {[exists |-> FALSE, parses |-> FALSE, value |-> DefaultExisting],
   [exists |-> TRUE, parses |-> FALSE, value |-> DefaultExisting],
   [exists |-> TRUE, parses |-> TRUE, value |-> [DefaultExisting EXCEPT !.isNull = TRUE]],
   [exists |-> TRUE, parses |-> TRUE, value |-> JsonObject(FALSE, {}, FALSE, {})]}
  \cup {[exists |-> TRUE, parses |-> TRUE, value |-> JsonObject(TRUE, D, FALSE, {})] :
          D \in SUBSET BaselineKeys}
  \cup {[exists |-> TRUE, parses |-> TRUE, value |-> JsonObject(TRUE, D, TRUE, T)] :
          <<D, T>> \in {dt \in (SUBSET BaselineKeys) \X (SUBSET BaselineKeys) :
                          dt[2] \subseteq dt[1] /\ Cardinality(dt[1] \ dt[2]) <= 1}}

\* the environments: every credential set, or one of them missing
Environments == {RequiredEnv} \cup {RequiredEnv \ {n} : n \in RequiredEnv}

Init ==
  /\ today = Today
  /\ env \in Environments
  /\ file \in BaselineFiles
  /\ pc = "start"
  /\ months = << >>
  /\ existing = DefaultExisting
  /\ result = DefaultExisting
  /\ idx = 0
  /\ leads = "na"
  /\ attempted = {}
  /\ srcFailed = {}
  /\ log = << >>
  /\ exitCode = -1
  /\ writes = 0
  /\ clock = 0
  /\ kpc = "idle"
  /\ kIn = << >>
  /\ kAlloc = << >>
  /\ kAcc = << >>
  /\ kOut = << >>
  /\ ucall = << >>
  /\ uret = << >>
  /\ udone = FALSE
  /\ pcall = << >>
  /\ ppc = "idle"
  /\ ploc = << >>
  /\ psent = 0
  /\ pserved = << >>
  /\ pret = << >>

\* process.exit(1), from env() or from main().catch
Exit1 ==
  /\ pc' = "exited"
  /\ exitCode' = 1

\* lines 419-430: the windows and the baseline
LoadBaseline ==
  /\ pc = "start"
  /\ months' = getMonthRange(MONTHS_BACK, today)
  /\ existing' = LoadExisting(file)
  /\ pc' = "client"
  /\ UNCHANGED kpiVars
  /\ UNCHANGED utilVars
  /\ UNCHANGED pageVars
  /\ UNCHANGED <<today, env, file, result, idx, leads, attempted, srcFailed,
                 log, exitCode, writes, clock>>

\* line 432, createNetSuiteClient: env() of the five ledger values
ClientCreated ==
  /\ pc = "client"
  /\ \A i \in 1..Len(NETSUITE_ENV) : ~envMissing(env, NETSUITE_ENV[i])
  /\ pc' = "result"
  /\ UNCHANGED kpiVars
  /\ UNCHANGED utilVars
  /\ UNCHANGED pageVars
  /\ UNCHANGED <<today, env, file, months, existing, result, idx, leads,
                 attempted, srcFailed, log, exitCode, writes, clock>>

ClientMissingEnv ==
  /\ pc = "client"
  /\ \E i \in 1..Len(NETSUITE_ENV) : envMissing(env, NETSUITE_ENV[i])
  /\ Exit1
  /\ UNCHANGED kpiVars
  /\ UNCHANGED utilVars
  /\ UNCHANGED pageVars
  /\ UNCHANGED <<today, env, file, months, existing, result, idx, leads,
                 attempted, srcFailed, log, writes, clock>>

\* lines 433-439
InitResult ==
  /\ pc = "result"
  /\ result' = NewResult(months, clock)
  /\ idx' = 1
  /\ pc' = "month"
  /\ UNCHANGED kpiVars
  /\ UNCHANGED utilVars
  /\ UNCHANGED pageVars
  /\ UNCHANGED <<today, env, file, months, existing, leads, attempted,
                 srcFailed, log, exitCode, writes, clock>>

\* the end of one iteration of for (const month of months)
NextMonth(outcome) ==
  /\ log' = Append(log, [key |-> months[idx].key, outcome |-> outcome])
  /\ idx' = idx + 1
  /\ clock' = clock + 1
  /\ leads' = "na"
  /\ pc' = "month"

\* line 446 on a baseline that parsed to null: existing.data throws a
\* TypeError outside the try, main() rejects
BaselineNullThrows ==
  /\ pc = "month" /\ idx <= Len(months)
  /\ existing.isNull
  /\ Exit1
  /\ UNCHANGED kpiVars
  /\ UNCHANGED utilVars
  /\ UNCHANGED pageVars
  /\ UNCHANGED <<today, env, file, months, existing, result, idx, leads,
                 attempted, srcFailed, log, writes, clock>>

\* lines 446-450: using cached data
ReuseCached ==
  /\ pc = "month" /\ idx <= Len(months)
  /\ ~existing.isNull
  /\ UseCached(existing, months, idx)
  /\ existing.hasTotals
  /\ result' = CopyCached(result, existing, months[idx].key)
  /\ NextMonth("reused")
  /\ UNCHANGED kpiVars
  /\ UNCHANGED utilVars
  /\ UNCHANGED pageVars
  /\ UNCHANGED <<today, env, file, months, existing, attempted, srcFailed,
                 exitCode, writes>>

\* line 449 on a baseline without a totals object: existing.totals[...]
\* throws after result.data[...] was assigned
ReuseCachedThrows ==
  /\ pc = "month" /\ idx <= Len(months)
  /\ ~existing.isNull
  /\ UseCached(existing, months, idx)
  /\ ~existing.hasTotals
  /\ result' = [result EXCEPT !.data = Put(@, months[idx].key,
                                           Get(existing.data, months[idx].key))]
  /\ Exit1
  /\ UNCHANGED kpiVars
  /\ UNCHANGED utilVars
  /\ UNCHANGED pageVars
  /\ UNCHANGED <<today, env, file, months, existing, idx, leads, attempted,
                 srcFailed, log, writes, clock>>

\* line 453: the try block is entered
BeginRecompute ==
  /\ pc = "month" /\ idx <= Len(months)
  /\ ~existing.isNull
  /\ ~UseCached(existing, months, idx)
  /\ pc' = "revenue"
  /\ UNCHANGED kpiVars
  /\ UNCHANGED utilVars
  /\ UNCHANGED pageVars
  /\ UNCHANGED <<today, env, file, months, existing, result, idx, leads,
                 attempted, srcFailed, log, exitCode, writes, clock>>

\* line 455, pullNetSuiteRevenue: runSuiteQL returns the rows, or throws
\* (a non-2xx response, a rejected fetch)
PullRevenue ==
  /\ pc = "revenue"
  /\ attempted' = attempted \cup {months[idx].key}
  /\ \E ok \in BOOLEAN :
       IF ok THEN /\ pc' = "spend"
                  /\ UNCHANGED srcFailed
             ELSE /\ pc' = "catch"
                  /\ srcFailed' = srcFailed \cup {months[idx].key}
  /\ UNCHANGED kpiVars
  /\ UNCHANGED utilVars
  /\ UNCHANGED pageVars
  /\ UNCHANGED <<today, env, file, months, existing, result, idx, leads,
                 log, exitCode, writes, clock>>

\* line 458, pullNetSuiteMarketingSpend
PullSpend ==
  /\ pc = "spend"
  /\ attempted' = attempted \cup {months[idx].key}
  /\ \E ok \in BOOLEAN :
       IF ok THEN /\ pc' = "leads"
                  /\ UNCHANGED srcFailed
             ELSE /\ pc' = "catch"
                  /\ srcFailed' = srcFailed \cup {months[idx].key}
  /\ UNCHANGED kpiVars
  /\ UNCHANGED utilVars
  /\ UNCHANGED pageVars
  /\ UNCHANGED <<today, env, file, months, existing, result, idx, leads,
                 log, exitCode, writes, clock>>

\* env('HUBSPOT_TOKEN') at the head of pullHubSpotLeads / pullHubSpotNewMembers
HubSpotMissingEnv ==
  /\ pc \in {"leads", "newMembers"}
  /\ envMissing(env, HUBSPOT_ENV)
  /\ Exit1
  /\ UNCHANGED kpiVars
  /\ UNCHANGED utilVars
  /\ UNCHANGED pageVars
  /\ UNCHANGED <<today, env, file, months, existing, result, idx, leads,
                 attempted, srcFailed, log, writes, clock>>

\* hubspotSearch: every page ("full"); a non-2xx page, which is logged and
\* ends the loop with the results so far ("partial"); or a rejected fetch,
\* which throws ("throws")
HubSpotOutcomes == {"full", "partial", "throws"}

\* line 460
PullLeads ==
  /\ pc = "leads"
  /\ ~envMissing(env, HUBSPOT_ENV)
  /\ attempted' = attempted \cup {months[idx].key}
  /\ \E o \in HubSpotOutcomes :
       /\ srcFailed' = IF o = "full" THEN srcFailed
                       ELSE srcFailed \cup {months[idx].key}
       /\ IF o = "throws" THEN pc' = "catch" /\ UNCHANGED leads
          ELSE pc' = "newMembers" /\ leads' = o
  /\ UNCHANGED kpiVars
  /\ UNCHANGED utilVars
  /\ UNCHANGED pageVars
  /\ UNCHANGED <<today, env, file, months, existing, result, idx, log,
                 exitCode, writes, clock>>

\* lines 461-468: the new-member pull, the member counts, calculateKPIs and
\* the two assignments
PullNewMembersAndStore ==
  /\ pc = "newMembers"
  /\ ~envMissing(env, HUBSPOT_ENV)
  /\ attempted' = attempted \cup {months[idx].key}
  /\ \E o \in HubSpotOutcomes :
       /\ srcFailed' = IF o = "full" THEN srcFailed
                       ELSE srcFailed \cup {months[idx].key}
       /\ IF o = "throws"
          THEN /\ pc' = "catch"
               /\ UNCHANGED <<result, idx, leads, log, clock>>
          ELSE /\ result' = StoreComputed(result, months[idx].key, leads, o)
               /\ NextMonth("computed")
  /\ UNCHANGED kpiVars
  /\ UNCHANGED utilVars
  /\ UNCHANGED pageVars
  /\ UNCHANGED <<today, env, file, months, existing, exitCode, writes>>

\* lines 476-481: falling back to cached data
CatchFallback ==
  /\ pc = "catch"
  /\ Truthy(CachedRecord(existing, months[idx].key))
  /\ existing.hasTotals
  /\ result' = CopyFallback(result, existing, months[idx].key)
  /\ NextMonth("fallback")
  /\ UNCHANGED kpiVars
  /\ UNCHANGED utilVars
  /\ UNCHANGED pageVars
  /\ UNCHANGED <<today, env, file, months, existing, attempted, srcFailed,
                 exitCode, writes>>

\* line 481 on a baseline without a totals object: the catch block throws
CatchFallbackThrows ==
  /\ pc = "catch"
  /\ Truthy(CachedRecord(existing, months[idx].key))
  /\ ~existing.hasTotals
  /\ result' = [result EXCEPT !.data = Put(@, months[idx].key,
                                           Get(existing.data, months[idx].key))]
  /\ Exit1
  /\ UNCHANGED kpiVars
  /\ UNCHANGED utilVars
  /\ UNCHANGED pageVars
  /\ UNCHANGED <<today, env, file, months, existing, idx, leads, attempted,
                 srcFailed, log, writes, clock>>

\* lines 482-484: no cached data available, skipping
CatchSkip ==
  /\ pc = "catch"
  /\ ~Truthy(CachedRecord(existing, months[idx].key))
  /\ NextMonth("skipped")
  /\ UNCHANGED kpiVars
  /\ UNCHANGED utilVars
  /\ UNCHANGED pageVars
  /\ UNCHANGED <<today, env, file, months, existing, result, attempted,
                 srcFailed, exitCode, writes>>

\* a write placed in the loop: the file is written while months remain
WriteFileInLoop ==
  /\ pc = "month" /\ idx >= 1
  /\ file' = [exists |-> TRUE, parses |-> TRUE, value |-> Stringify(result)]
  /\ writes' = writes + 1
  /\ pc' = "done"
  /\ exitCode' = 0
  /\ UNCHANGED kpiVars
  /\ UNCHANGED utilVars
  /\ UNCHANGED pageVars
  /\ UNCHANGED <<today, env, months, existing, result, idx, leads, attempted,
                 srcFailed, log, clock>>

\* line 488: fs.writeFileSync replaces the file
WriteFile ==
  /\ pc = "month" /\ idx > Len(months)
  /\ file' = [exists |-> TRUE, parses |-> TRUE, value |-> Stringify(result)]
  /\ writes' = writes + 1
  /\ pc' = "done"
  /\ exitCode' = 0
  /\ UNCHANGED kpiVars
  /\ UNCHANGED utilVars
  /\ UNCHANGED pageVars
  /\ UNCHANGED <<today, env, months, existing, result, idx, leads, attempted,
                 srcFailed, log, clock>>

\* a file that fs.writeFileSync opened, which empties it, and did not finish
TruncatedFile == [exists |-> TRUE, parses |-> FALSE, value |-> DefaultExisting]

\* line 488 throwing: main() rejects.  The file cannot be opened and is as
\* it was, or the write fails after the open and leaves it truncated
WriteFileThrows ==
  /\ pc = "month" /\ idx > Len(months)
  /\ file' \in {file, TruncatedFile}
  /\ Exit1
  /\ UNCHANGED kpiVars
  /\ UNCHANGED utilVars
  /\ UNCHANGED pageVars
  /\ UNCHANGED <<today, env, months, existing, result, idx, leads,
                 attempted, srcFailed, log, writes, clock>>

Next ==
  \/ LoadBaseline
  \/ ClientCreated
  \/ ClientMissingEnv
  \/ InitResult
  \/ BaselineNullThrows
  \/ ReuseCached
  \/ ReuseCachedThrows
  \/ BeginRecompute
  \/ PullRevenue
  \/ PullSpend
  \/ HubSpotMissingEnv
  \/ PullLeads
  \/ PullNewMembersAndStore
  \/ CatchFallback
  \/ CatchFallbackThrows
  \/ CatchSkip
  \/ WriteFile
  \/ WriteFileThrows

Spec == Init /\ [][Next]_vars

(***************************************************************************)
(* KPI calculations.  A map argument of calculateKPIs is a function from   *)
(* some of the codes to numbers; a KPI is a number or null.                *)
(***************************************************************************)
SALARY_CONFIG_total == 72082

\* AVG_MEMBER_DURATION, in tenths of a month: the literal 12.1 denotes the
\* number nearest to 121/10
AVG_MEMBER_DURATION_TENTHS ==
  <<160, 121, 125, 164, 126, 176, 119, 142, 129, 119, 164>>

LocSet == {LOCATIONS[n] : n \in 1..Len(LOCATIONS)}

LocIndex(loc) == CHOOSE n \in 1..Len(LOCATIONS) : LOCATIONS[n] = loc

AVG_MEMBER_DURATION ==
  [loc \in LocSet |->
     fdiv(FromInt(AVG_MEMBER_DURATION_TENTHS[LocIndex(loc)]), FromInt(10))]

Null == [m |-> << >>, e |-> 0]

IsNull(v) == v.m = << >>

\* a number that is neither null nor 0
TruthyNum(v) == ~IsNull(v) /\ ~IsZero(v)

\* the largest finite number is below 2^1024
isFinite(v) == v.e + MantBits <= 1024

\* map[k] || 0
OrZero(map, k) == IF k \in DOMAIN map /\ TruthyNum(map[k]) THEN map[k] ELSE Zero

\* v || null
OrNull(v) == IF TruthyNum(v) THEN v ELSE Null

\* a rounding without the null guard: null * 100 is 0
r2NullAsZero(v) ==
  IF IsNull(v) THEN Zero
  ELSE fdiv(MathRound(fmul(v, FromInt(100))), FromInt(100))

r2(v) ==
  IF ~IsNull(v) /\ isFinite(v)
  THEN fdiv(MathRound(fmul(v, FromInt(100))), FromInt(100))
  ELSE Null

\* the fold of + over the locations, in the order of LOCATIONS, from 0
RECURSIVE SumLocs(_, _)
SumLocs(f, n) ==
  IF n = 0 THEN Zero ELSE fadd(SumLocs(f, n - 1), f[LOCATIONS[n]])

corpSpendOf(mktgSpend) == OrZero(mktgSpend, "Corp")

totalLocSpendOf(mktgSpend) ==
  SumLocs([l \in LocSet |-> OrZero(mktgSpend, l)], Len(LOCATIONS))

\* a share of all the spend, the Corp row included
locShareOfAllSpend(mktgSpend, total, loc) ==
  IF fgt(total, Zero)
  THEN fdiv(OrZero(mktgSpend, loc), fadd(total, corpSpendOf(mktgSpend)))
  ELSE fdiv(FromInt(1), FromInt(Len(LOCATIONS)))

locShare(mktgSpend, total, loc) ==
  IF fgt(total, Zero)
  THEN fdiv(OrZero(mktgSpend, loc), total)
  ELSE fdiv(FromInt(1), FromInt(Len(LOCATIONS)))

\* lines 335-347: the state of the call after the allocation loop
Allocate(mktgSpend) ==
  LET corpSpend == corpSpendOf(mktgSpend)
      totalLocSpend == totalLocSpendOf(mktgSpend)
      share == [loc \in LocSet |-> locShare(mktgSpend, totalLocSpend, loc)]
  IN [corpSpend |-> corpSpend,
      totalLocSpend |-> totalLocSpend,
      corpAllocation |-> [loc \in LocSet |-> fmul(corpSpend, share[loc])],
      salaryAllocation |->
        [loc \in LocSet |-> fmul(FromInt(SALARY_CONFIG_total), share[loc])]]

\* x > 0 ? n / x : null
Ratio(n, x) == IF fgt(x, Zero) THEN fdiv(n, x) ELSE Null

\* a && b ? a * b : null
Product(a, b) == IF TruthyNum(a) /\ TruthyNum(b) THEN fmul(a, b) ELSE Null

KPIs(rev, spend, corpAlloc, salary, leadCount, newMem, avgRev, duration) ==
  [cac |-> r2(Ratio(spend, newMem)),
   corpCac |-> r2(Ratio(fadd(spend, corpAlloc), newMem)),
   allInCac |-> r2(Ratio(fadd(fadd(spend, corpAlloc), salary), newMem)),
   avgRevPerMember |-> r2(avgRev),
   avgMemberDuration |-> r2(duration),
   ltv |-> r2(Product(avgRev, duration)),
   mktgSpendToRev |-> r2(Ratio(spend, rev)),
   corpMktgToRev |-> r2(Ratio(fadd(spend, corpAlloc), rev)),
   allInSpendToRev |-> r2(Ratio(fadd(fadd(spend, corpAlloc), salary), rev)),
   costPerLead |-> r2(Ratio(spend, leadCount))]

\* lines 355-380: data[loc]
LocationKPIs(in, alloc, loc) ==
  LET rev == OrZero(in.revenue, loc)
      members == OrZero(in.memberCounts, loc)
  IN KPIs(rev, OrZero(in.mktgSpend, loc),
          OrZero(alloc.corpAllocation, loc), OrZero(alloc.salaryAllocation, loc),
          OrZero(in.leads, loc), OrZero(in.newMembers, loc),
          Ratio(rev, members), OrNull(OrZero(AVG_MEMBER_DURATION, loc)))

\* line 389: what one location adds to durationWeightedSum
DurationWeight(in, loc) ==
  LET duration == OrZero(AVG_MEMBER_DURATION, loc)
      members == OrZero(in.memberCounts, loc)
  IN IF fgt(duration, Zero) /\ fgt(members, Zero)
     THEN fmul(duration, members) ELSE Zero

\* the values of a map at the locations, absent ones as 0
AtLocations(map) == [l \in LocSet |-> OrZero(map, l)]

\* lines 349-390: the state of the call after the loop over the locations
Accumulate(in, alloc) ==
  [data |-> [loc \in LocSet |-> LocationKPIs(in, alloc, loc)],
   totRev |-> SumLocs(AtLocations(in.revenue), Len(LOCATIONS)),
   totSpend |-> SumLocs(AtLocations(in.mktgSpend), Len(LOCATIONS)),
   totCorpAlloc |-> SumLocs(AtLocations(alloc.corpAllocation), Len(LOCATIONS)),
   totSalary |-> SumLocs(AtLocations(alloc.salaryAllocation), Len(LOCATIONS)),
   totMembers |-> SumLocs(AtLocations(in.memberCounts), Len(LOCATIONS)),
   totNewMembers |-> SumLocs(AtLocations(in.newMembers), Len(LOCATIONS)),
   totLeads |-> SumLocs(AtLocations(in.leads), Len(LOCATIONS)),
   durationWeightedSum |->
     SumLocs([l \in LocSet |-> DurationWeight(in, l)], Len(LOCATIONS))]

\* the integer a whole number is
ToInt(x) ==
  IF IsZero(x) THEN 0
  ELSE LET w == IF x.e >= 0 THEN BNShiftLeft(x.m, x.e)
                ELSE BNShiftRight(x.m, 0 - x.e)
       IN Limb(w, 1) + Base * Limb(w, 2)

\* the mean of the values of a KPI over the locations where it is not null
MeanOverLocations(data, kpi) ==
  LET have == {l \in LocSet : ~IsNull(data[l][kpi])}
  IN IF have = {} THEN Null
     ELSE fdiv(SumLocs([l \in LocSet |->
                          IF l \in have THEN data[l][kpi] ELSE Zero],
                       Len(LOCATIONS)),
               FromInt(Cardinality(have)))

\* totals whose CAC is the mean of the per-location CAC values
TotalsMeanCac(acc) ==
  [data |-> acc.data,
   totals |-> [KPIs(acc.totRev, acc.totSpend, acc.totCorpAlloc, acc.totSalary,
                    acc.totLeads, acc.totNewMembers,
                    Ratio(acc.totRev, acc.totMembers),
                    Ratio(acc.durationWeightedSum, acc.totMembers))
               EXCEPT !.cac = r2(MeanOverLocations(acc.data, "cac"))]]

\* lines 392-408: the value returned
Totals(acc) ==
  [data |-> acc.data,
   totals |-> KPIs(acc.totRev, acc.totSpend, acc.totCorpAlloc, acc.totSalary,
                   acc.totLeads, acc.totNewMembers,
                   Ratio(acc.totRev, acc.totMembers),
                   Ratio(acc.durationWeightedSum, acc.totMembers))]

(***************************************************************************)
(* A call of calculateKPIs on its own: the arguments are drawn from the    *)
(* maps below, and the call advances through its three blocks.             *)
(***************************************************************************)
MaxAmount == 2

\* the locations that have direct spend in the maps drawn
SpendLocations == {LOCATIONS[1], LOCATIONS[2]}

Amounts == {FromInt(n) : n \in 0..MaxAmount}

\* the Corp row carries amounts in steps of 50
CorpAmounts == {FromInt(50 * n) : n \in 0..MaxAmount}

SpendMaps ==
  {[k \in SpendLocations \cup {"Corp"} |-> IF k = "Corp" THEN c ELSE f[k]] :
     f \in [SpendLocations -> Amounts], c \in CorpAmounts}

NoMap == [k \in {} |-> Zero]

OneMap(loc, n) == [k \in {loc} |-> FromInt(n)]

TwoMap(a, b) ==
  [k \in SpendLocations |-> IF k = LOCATIONS[1] THEN FromInt(a) ELSE FromInt(b)]

\* revenue, leads, new members and member counts of a month: nothing pulled;
\* one location with revenue, new members and members; the same with leads
\* at a second location that has no members; both locations with all four;
\* revenue and new members at the second location only, no member counts
OtherMaps ==
  {[revenue |-> NoMap, leads |-> NoMap, newMembers |-> NoMap,
    memberCounts |-> NoMap],
   [revenue |-> OneMap(LOCATIONS[1], 1000), leads |-> NoMap,
    newMembers |-> OneMap(LOCATIONS[1], 5),
    memberCounts |-> OneMap(LOCATIONS[1], 10)],
   [revenue |-> OneMap(LOCATIONS[1], 1000), leads |-> OneMap(LOCATIONS[2], 4),
    newMembers |-> OneMap(LOCATIONS[1], 3),
    memberCounts |-> OneMap(LOCATIONS[1], 7)],
   [revenue |-> TwoMap(1000, 500), leads |-> TwoMap(2, 4),
    newMembers |-> TwoMap(3, 1), memberCounts |-> TwoMap(7, 3)],
   [revenue |-> OneMap(LOCATIONS[2], 500), leads |-> OneMap(LOCATIONS[1], 2),
    newMembers |-> TwoMap(0, 2), memberCounts |-> NoMap]}

KpiInputs ==
  {[revenue |-> o.revenue, mktgSpend |-> s, leads |-> o.leads,
    newMembers |-> o.newMembers, memberCounts |-> o.memberCounts] :
     s \in SpendMaps, o \in OtherMaps}

InitKPI ==
  /\ today = [year |-> 0, month |-> 0]
  /\ env = {}
  /\ file = << >>
  /\ pc = "idle"
  /\ months = << >>
  /\ existing = << >>
  /\ result = << >>
  /\ idx = 0
  /\ leads = << >>
  /\ attempted = {}
  /\ srcFailed = {}
  /\ log = << >>
  /\ exitCode = 0
  /\ writes = 0
  /\ clock = 0
  /\ kpc = "called"
  /\ kIn \in KpiInputs
  /\ kAlloc = << >>
  /\ kAcc = << >>
  /\ kOut = << >>
  /\ ucall = << >>
  /\ uret = << >>
  /\ udone = FALSE
  /\ pcall = << >>
  /\ ppc = "idle"
  /\ ploc = << >>
  /\ psent = 0
  /\ pserved = << >>
  /\ pret = << >>

\* lines 335-347
KpiAllocate ==
  /\ kpc = "called"
  /\ kAlloc' = Allocate(kIn.mktgSpend)
  /\ kpc' = "allocated"
  /\ UNCHANGED <<kIn, kAcc, kOut>>
  /\ UNCHANGED runVars
  /\ UNCHANGED utilVars
  /\ UNCHANGED pageVars

\* lines 349-390
KpiAccumulate ==
  /\ kpc = "allocated"
  /\ kAcc' = Accumulate(kIn, kAlloc)
  /\ kpc' = "accumulated"
  /\ UNCHANGED <<kIn, kAlloc, kOut>>
  /\ UNCHANGED runVars
  /\ UNCHANGED utilVars
  /\ UNCHANGED pageVars

\* lines 392-408
KpiReturn ==
  /\ kpc = "accumulated"
  /\ kOut' = Totals(kAcc)
  /\ kpc' = "returned"
  /\ UNCHANGED <<kIn, kAlloc, kAcc>>
  /\ UNCHANGED runVars
  /\ UNCHANGED utilVars
  /\ UNCHANGED pageVars

NextKPI ==
  \/ KpiAllocate
  \/ KpiAccumulate
  \/ KpiReturn

SpecKPI == InitKPI /\ [][NextKPI]_vars

calculateKPIs(revenue, mktgSpend, leads_, newMembers, memberCounts) ==
  Totals(Accumulate([revenue |-> revenue, mktgSpend |-> mktgSpend,
                     leads |-> leads_, newMembers |-> newMembers,
                     memberCounts |-> memberCounts],
                    Allocate(mktgSpend)))

(***************************************************************************)
(* Member counts.  KNOWN_MEMBER_COUNTS maps a month key to the counts of   *)
(* the locations.                                                          *)
(***************************************************************************)
KNOWN_MEMBER_COUNTS ==
  202512 :> ("ATL-UWS" :> 64 @@ "DAL-FB" :> 96 @@ "SEA-SODO" :> 86 @@
             "DEN-PH" :> 94 @@ "LA-TOR" :> 72 @@ "DC-ALX" :> 73 @@
             "LA-DUA" :> 55 @@ "DAL-CAR" :> 92 @@ "ATL-WSP" :> 142 @@
             "MIA-DR" :> 66 @@ "PHX-ST" :> 79) @@
  202601 :> ("ATL-UWS" :> 63 @@ "DAL-FB" :> 95 @@ "SEA-SODO" :> 84 @@
             "DEN-PH" :> 93 @@ "LA-TOR" :> 73 @@ "DC-ALX" :> 73 @@
             "LA-DUA" :> 58 @@ "DAL-CAR" :> 96 @@ "ATL-WSP" :> 141 @@
             "MIA-DR" :> 66 @@ "PHX-ST" :> 86) @@
  202603 :> ("ATL-UWS" :> 64 @@ "DAL-FB" :> 106 @@ "SEA-SODO" :> 78 @@
             "DEN-PH" :> 87 @@ "LA-TOR" :> 67 @@ "DC-ALX" :> 81 @@
             "LA-DUA" :> 72 @@ "DAL-CAR" :> 108 @@ "ATL-WSP" :> 142 @@
             "MIA-DR" :> 79 @@ "PHX-ST" :> 79)

\* Object.keys(o).sort(): the keys in increasing order
RECURSIVE SortedKeys(_)
SortedKeys(keys) ==
  IF keys = {} THEN << >>
  ELSE LET least == CHOOSE k \in keys : \A other \in keys : k <= other
       IN <<least>> \o SortedKeys(keys \ {least})

\* for (const km of knownMonths) if (km <= monthKey) closest = km
RECURSIVE ClosestFrom(_, _, _, _)
ClosestFrom(knownMonths, monthKey, closest, j) ==
  IF j > Len(knownMonths) THEN closest
  ELSE ClosestFrom(knownMonths, monthKey,
                   IF knownMonths[j] <= monthKey THEN knownMonths[j] ELSE closest,
                   j + 1)

getMemberCounts(monthKey) ==
  IF monthKey \in DOMAIN KNOWN_MEMBER_COUNTS
  THEN KNOWN_MEMBER_COUNTS[monthKey]
  ELSE LET knownMonths == SortedKeys(DOMAIN KNOWN_MEMBER_COUNTS)
           closest == ClosestFrom(knownMonths, monthKey,
                                  knownMonths[Len(knownMonths)], 1)
       IN KNOWN_MEMBER_COUNTS[closest]

(***************************************************************************)
(* A call of a utility on its own: getMonthRange at a current date, or     *)
(* getMemberCounts of a month key.                                         *)
(***************************************************************************)
MaxMonthsBack == 13

\* the current dates: year and getMonth(), in and around a leap year, a
\* century that is one and a century that is none
CurrentDates ==
  {[year |-> y, month |-> m] : y \in {2000, 2024, 2025, 2100}, m \in 0..11}

\* the month keys asked of getMemberCounts
RequestedKeys == {y * 100 + m : y \in {2025, 2026}, m \in 1..12}

UtilCalls ==
  {[fn |-> "getMonthRange", monthsBack |-> n, now |-> d] :
     n \in 1..MaxMonthsBack, d \in CurrentDates}
  \cup {[fn |-> "getMemberCounts", monthKey |-> k] : k \in RequestedKeys}

RunIdle ==
  /\ today = [year |-> 0, month |-> 0]
  /\ env = {}
  /\ file = << >>
  /\ pc = "idle"
  /\ months = << >>
  /\ existing = << >>
  /\ result = << >>
  /\ idx = 0
  /\ leads = << >>
  /\ attempted = {}
  /\ srcFailed = {}
  /\ log = << >>
  /\ exitCode = 0
  /\ writes = 0
  /\ clock = 0

KpiIdle ==
  /\ kpc = "idle"
  /\ kIn = << >>
  /\ kAlloc = << >>
  /\ kAcc = << >>
  /\ kOut = << >>

UtilIdle ==
  /\ ucall = << >>
  /\ uret = << >>
  /\ udone = FALSE

InitUtil ==
  /\ RunIdle
  /\ KpiIdle
  /\ ucall \in UtilCalls
  /\ uret = << >>
  /\ udone = FALSE
  /\ pcall = << >>
  /\ ppc = "idle"
  /\ ploc = << >>
  /\ psent = 0
  /\ pserved = << >>
  /\ pret = << >>

\* lines 88-103
CallGetMonthRange ==
  /\ ~udone
  /\ ucall.fn = "getMonthRange"
  /\ uret' = getMonthRange(ucall.monthsBack, ucall.now)
  /\ udone' = TRUE
  /\ UNCHANGED ucall
  /\ UNCHANGED <<runVars, kpiVars>>
  /\ UNCHANGED pageVars

\* lines 313-328
CallGetMemberCounts ==
  /\ ~udone
  /\ ucall.fn = "getMemberCounts"
  /\ uret' = getMemberCounts(ucall.monthKey)
  /\ udone' = TRUE
  /\ UNCHANGED ucall
  /\ UNCHANGED <<runVars, kpiVars>>
  /\ UNCHANGED pageVars

NextUtil ==
  \/ CallGetMonthRange
  \/ CallGetMemberCounts

SpecUtil == InitUtil /\ [][NextUtil]_vars

(***************************************************************************)
(* Paginated pulls.  The upstream holds the items 1..n and serves them in  *)
(* pages of at most PageLimit items from the position asked for; an        *)
(* endless upstream says on every page that more pages follow; the request *)
(* numbered failAt, if any, is answered with a non-2xx status.             *)
(***************************************************************************)
PageLimit == 2

MaxItems == 5

MaxFailAt == 4

PageCalls ==
  {[fn |-> f, n |-> n, endless |-> e, failAt |-> k] :
     f \in {"runSuiteQL", "hubspotSearch"}, n \in 0..MaxItems,
     e \in BOOLEAN, k \in 0..MaxFailAt}

\* the items of the page at a position
PageItems(call, at) ==
  [j \in 1..(IF at >= call.n THEN 0
             ELSE IF at + PageLimit <= call.n THEN PageLimit
             ELSE call.n - at) |-> at + j]

\* the upstream says that pages follow the page at a position
PageHasMore(call, at) == call.endless \/ at + PageLimit < call.n

\* paging.next.after of the page at a position: a cursor is a non-empty
\* string, which the number here stands for, and is truthy
PageNextAfter(call, at) ==
  IF at + PageLimit <= call.n THEN at + PageLimit
  ELSE IF at < call.n THEN call.n ELSE at

\* resp.ok of the answer to the request just sent
RespOk == pcall.failAt # psent

PagesIdle ==
  /\ pcall = << >>
  /\ ppc = "idle"
  /\ ploc = << >>
  /\ psent = 0
  /\ pserved = << >>
  /\ pret = << >>

\* lines 143-145 and 229-230: the locals before the loop.  after = -1 is
\* undefined
InitPages ==
  /\ RunIdle
  /\ KpiIdle
  /\ UtilIdle
  /\ pcall \in PageCalls
  /\ ppc = "loop"
  /\ ploc = IF pcall.fn = "runSuiteQL"
            THEN [allItems |-> << >>, offset |-> 0, hasMore |-> TRUE]
            ELSE [results |-> << >>, after |-> -1]
  /\ psent = 0
  /\ pserved = [items |-> << >>, end |-> FALSE]
  /\ pret = << >>

\* the number of requests sent, which the upstream needs up to failAt only
CountRequest == psent' = IF psent <= MaxFailAt THEN psent + 1 ELSE psent

\* lines 147-161: while (hasMore) { ... await fetch(...)
SuiteQLFetch ==
  /\ ppc = "loop" /\ pcall.fn = "runSuiteQL"
  /\ ploc.hasMore
  /\ CountRequest
  /\ ppc' = "awaiting"
  /\ UNCHANGED <<pcall, ploc, pserved, pret>>
  /\ UNCHANGED <<runVars, kpiVars, utilVars>>

\* lines 147, 175: the loop ends and allItems is returned
SuiteQLReturn ==
  /\ ppc = "loop" /\ pcall.fn = "runSuiteQL"
  /\ ~ploc.hasMore
  /\ pret' = ploc.allItems
  /\ ppc' = "returned"
  /\ UNCHANGED <<pcall, ploc, psent, pserved>>
  /\ UNCHANGED <<runVars, kpiVars, utilVars>>

\* lines 163-166: a non-2xx answer throws
SuiteQLThrows ==
  /\ ppc = "awaiting" /\ pcall.fn = "runSuiteQL"
  /\ ~RespOk
  /\ ppc' = "thrown"
  /\ UNCHANGED <<pcall, ploc, psent, pserved, pret>>
  /\ UNCHANGED <<runVars, kpiVars, utilVars>>

\* lines 168-172: a page is added and the offset advanced
SuiteQLPage ==
  /\ ppc = "awaiting" /\ pcall.fn = "runSuiteQL"
  /\ RespOk
  /\ LET items == PageItems(pcall, ploc.offset)
         more == PageHasMore(pcall, ploc.offset)
     IN /\ ploc' = [allItems |-> ploc.allItems \o items,
                    offset |-> ploc.offset + Len(items),
                    hasMore |-> more]
        /\ pserved' = [items |-> pserved.items \o items, end |-> ~more]
  /\ ppc' = "loop"
  /\ UNCHANGED <<pcall, psent, pret>>
  /\ UNCHANGED <<runVars, kpiVars, utilVars>>

\* lines 232-247: while (true) { ... await fetch(...)
HubSpotFetch ==
  /\ ppc = "loop" /\ pcall.fn = "hubspotSearch"
  /\ CountRequest
  /\ ppc' = "awaiting"
  /\ UNCHANGED <<pcall, ploc, pserved, pret>>
  /\ UNCHANGED <<runVars, kpiVars, utilVars>>

\* the position a request asks for: after, or the start when it is undefined
HubSpotAt == IF ploc.after = -1 THEN 0 ELSE ploc.after

\* lines 249-253, 265: a non-2xx answer is logged, the loop is left and the
\* results so far are returned
HubSpotErrorBreak ==
  /\ ppc = "awaiting" /\ pcall.fn = "hubspotSearch"
  /\ ~RespOk
  /\ pret' = ploc.results
  /\ ppc' = "returned"
  /\ UNCHANGED <<pcall, ploc, psent, pserved>>
  /\ UNCHANGED <<runVars, kpiVars, utilVars>>

\* lines 255-259: a page with a next cursor is added and the cursor followed
HubSpotPage ==
  /\ ppc = "awaiting" /\ pcall.fn = "hubspotSearch"
  /\ RespOk
  /\ PageHasMore(pcall, HubSpotAt)
  /\ LET items == PageItems(pcall, HubSpotAt)
     IN /\ ploc' = [results |-> ploc.results \o items,
                    after |-> PageNextAfter(pcall, HubSpotAt)]
        /\ pserved' = [items |-> pserved.items \o items, end |-> FALSE]
  /\ ppc' = "loop"
  /\ UNCHANGED <<pcall, psent, pret>>
  /\ UNCHANGED <<runVars, kpiVars, utilVars>>

\* lines 255-256, 260-262, 265: a page without a next cursor is added, the
\* loop is left and the results are returned
HubSpotLastPage ==
  /\ ppc = "awaiting" /\ pcall.fn = "hubspotSearch"
  /\ RespOk
  /\ ~PageHasMore(pcall, HubSpotAt)
  /\ LET items == PageItems(pcall, HubSpotAt)
     IN /\ ploc' = [ploc EXCEPT !.results = ploc.results \o items]
        /\ pserved' = [items |-> pserved.items \o items, end |-> TRUE]
        /\ pret' = ploc.results \o items
  /\ ppc' = "returned"
  /\ UNCHANGED <<pcall, psent>>
  /\ UNCHANGED <<runVars, kpiVars, utilVars>>

NextPages ==
  \/ SuiteQLFetch
  \/ SuiteQLReturn
  \/ SuiteQLThrows
  \/ SuiteQLPage
  \/ HubSpotFetch
  \/ HubSpotErrorBreak
  \/ HubSpotPage
  \/ HubSpotLastPage

SpecPages == InitPages /\ [][NextPages]_vars

\* the event loop runs a pull's next step whenever there is one
FairSpecPages == SpecPages /\ WF_vars(NextPages)

(***************************************************************************)
(* The claims about the run.                                               *)
(***************************************************************************)
Processed(j) == j \in 1..Len(log)

\* the month's recomputation failed: its try block ended in the catch block
RecomputeFailed(j) == Processed(j) /\ log[j].outcome \in {"fallback", "skipped"}

\* the baseline's data mapping holds a record for the key
BaselineHolds(k) == ~existing.isNull /\ existing.hasData /\ k \in DOMAIN existing.data

\* the two most recent windows of the run
TwoMostRecent == {j \in 1..Len(months) : j >= Len(months) - 1}

\* what the run writes, or would write, as the output dataset
Output == Stringify(result)

AllCredentials == env = RequiredEnv

\* C1: the two most recent windows are never served from the cache: neither
\* is logged as reused, a processed one has had its source pulls attempted,
\* and a baseline record is copied for one only after that attempt.
C1_RecentAlwaysRecomputed ==
  \A j \in TwoMostRecent :
    LET k == months[j].key IN
      /\ Processed(j) => (log[j].outcome # "reused" /\ k \in attempted)
      /\ (k \in DOMAIN result.data /\ result.data[k].src = "baseline")
           => k \in attempted

\* C1 witness: a baseline with a record for every window, and a finished run
\* in which the most recent window fell back to it after its pulls
C1_Witness ==
  /\ pc = "done"
  /\ \A j \in 1..Len(months) : BaselineHolds(months[j].key)
  /\ log[Len(months)].outcome = "fallback"
  /\ log[Len(months) - 1].outcome = "computed"

\* C2: a window older than the two most recent is served from the baseline,
\* with no source request issued for it, if and only if the baseline's data
\* holds a record for its key; otherwise its sources are pulled.
C2_OlderReusedIffCached ==
  \A j \in 1..Len(months) \ TwoMostRecent :
    LET k == months[j].key IN
      /\ k \in attempted => ~BaselineHolds(k)
      /\ Processed(j) =>
            /\ BaselineHolds(k) <=> k \notin attempted
            /\ BaselineHolds(k) <=> log[j].outcome = "reused"
            /\ BaselineHolds(k) => Get(result.data, k) = Get(existing.data, k)

\* C2 witness: a finished run whose oldest window was reused without a pull
C2_Witness ==
  /\ pc = "done"
  /\ log[1].outcome = "reused"
  /\ months[1].key \notin attempted
  /\ file.value.data[months[1].key] = BaselineRecord(months[1].key)

\* C3: when the recomputation of a month failed and the baseline holds a
\* record for it, the output's data and totals entries for the month are
\* the baseline's entries.
C3_FallbackCopiesBaseline ==
  \A j \in 1..Len(months) :
    LET k == months[j].key IN
      (RecomputeFailed(j) /\ BaselineHolds(k)) =>
        /\ Get(Output.data, k) = Get(existing.data, k)
        /\ Get(Output.totals, k) = Get(existing.totals, k)
        /\ pc = "done" =>
              /\ Get(file.value.data, k) = Get(existing.data, k)
              /\ Get(file.value.totals, k) = Get(existing.totals, k)

\* C3 witness: a written file that holds the baseline's data and totals
\* records for a month whose recomputation failed
C3_Witness ==
  /\ pc = "done"
  /\ \E j \in 1..Len(months) :
       /\ RecomputeFailed(j)
       /\ months[j].key \in srcFailed
       /\ Get(file.value.data, months[j].key) = BaselineRecord(months[j].key)
       /\ Get(file.value.totals, months[j].key) = BaselineRecord(months[j].key)

\* C4 as claimed: when the recomputation of a month failed and the baseline
\* holds no record for it, its key is in none of the written dataset's
\* months list, data mapping and totals mapping.
C4_SkippedMonthOmitted ==
  pc = "done" =>
    \A j \in 1..Len(months) :
      LET k == months[j].key IN
        (RecomputeFailed(j) /\ ~BaselineHolds(k)) =>
          /\ k \notin {file.value.months[n] : n \in 1..Len(file.value.months)}
          /\ k \notin DOMAIN file.value.data
          /\ k \notin DOMAIN file.value.totals

\* C5 as claimed: the failure of a month's pulls is handled within the month:
\* from the catch block the run always goes on to the next window.
C5_FailureIsolated ==
  [][pc = "catch" => (pc' = "month" /\ idx' = idx + 1)]_vars

\* C6 as claimed: no record computed from a pull in which a source call
\* failed is stored for the month.
C6_FailedPullNotStored ==
  \A k \in srcFailed :
    ~(k \in DOMAIN result.data /\ result.data[k].src = "computed")

\* C7 as claimed: with a required credential missing, no month is reused, no
\* source request is issued and no dataset is written.
C7_MissingCredentialStopsFirst ==
  ~AllCredentials => (attempted = {} /\ log = << >> /\ pc # "done")

\* the file is absent or does not hold a dataset
BaselineUnusable ==
  \/ ~file.exists
  \/ ~file.parses
  \/ file.value.isNull
  \/ ~file.value.hasData
  \/ ~file.value.hasTotals

\* C8 as claimed: with the file absent or corrupt the run is not stopped
\* while windows remain to be processed.
C8_BaselineNeverFatal ==
  (AllCredentials /\ writes = 0 /\ BaselineUnusable) =>
    ~(pc = "exited" /\ idx <= Len(months))

\* C9: every month key of the output's data and totals mappings is the key
\* of one of the run's windows, in the result being built and in the file
\* once written.
C9_OutputKeysInWindow ==
  LET keys == {months[j].key : j \in 1..Len(months)} IN
    /\ pc \notin {"start", "client", "result"} =>
          (DOMAIN result.data \subseteq keys /\ DOMAIN result.totals \subseteq keys)
    /\ pc = "done" =>
          (DOMAIN file.value.data \subseteq keys /\ DOMAIN file.value.totals \subseteq keys)

\* C9 witness: a baseline record for the month before the window, and a
\* written file without it
C9_Witness ==
  /\ pc = "done"
  /\ OlderKey \in DOMAIN existing.data
  /\ OlderKey \in DOMAIN existing.totals
  /\ OlderKey \notin DOMAIN file.value.data
  /\ DOMAIN file.value.data # {}

(***************************************************************************)
(* The claims about calculateKPIs.                                         *)
(***************************************************************************)
\* the loop over the locations of the call has run
Accumulated == kpc \in {"accumulated", "returned"}

\* a distance beyond any tolerance of the claims
FarApart == Base

SmallInt(b) == IF Len(BNTrim(b)) <= 1 THEN Limb(b, 1) ELSE FarApart

\* how many numbers lie between x and y, counting y: 0 when they are equal,
\* FarApart when more than a limb's worth
UlpsApart(x, y) ==
  IF x = y THEN 0
  ELSE IF IsZero(x) \/ IsZero(y) THEN FarApart
  ELSE LET hi == IF fgt(x, y) THEN x ELSE y
           lo == IF fgt(x, y) THEN y ELSE x
       IN IF hi.e = lo.e THEN SmallInt(BNSub(hi.m, lo.m))
          ELSE IF hi.e = lo.e + 1
          THEN SmallInt(BNAdd(BNSub(hi.m, BNShiftLeft(<<1>>, MantBits - 1)),
                              BNSub(BNShiftLeft(<<1>>, MantBits), lo.m)))
          ELSE FarApart

\* the roundings of a sum of shares: one per share, one per product, and one
\* per addition of each of the two folds
RoundingUlps == 2 * Len(LOCATIONS)

\* C10 as stated: for every spend map, the corp allocations of the locations
\* sum to exactly corpSpend and the payroll allocations sum to exactly the
\* configured payroll total, whether the total direct spend is zero or not.
C10_AllocationsSumExactly ==
  Accumulated =>
    /\ kAcc.totCorpAlloc = kAlloc.corpSpend
    /\ kAcc.totSalary = FromInt(SALARY_CONFIG_total)

\* C10 amended: for every spend map, the corp allocations of the locations sum
\* to corpSpend and the payroll allocations sum to the configured payroll
\* total to within floating-point rounding (at most two units in the last
\* place per location), whether the total direct spend is zero or not.
C10_AllocationsSumWithinRounding ==
  Accumulated =>
    /\ UlpsApart(kAcc.totCorpAlloc, kAlloc.corpSpend) <= RoundingUlps
    /\ UlpsApart(kAcc.totSalary, FromInt(SALARY_CONFIG_total)) <= RoundingUlps

\* C10 witness: a call with direct spend at two locations and a Corp row,
\* whose corp allocations sum to a number next to corpSpend, not to it
C10_Witness ==
  /\ Accumulated
  /\ fgt(kAlloc.totalLocSpend, Zero)
  /\ fgt(kAlloc.corpSpend, Zero)
  /\ \A l \in SpendLocations : fgt(kAlloc.corpAllocation[l], Zero)
  /\ kAcc.totCorpAlloc # kAlloc.corpSpend
  /\ UlpsApart(kAcc.totCorpAlloc, kAlloc.corpSpend) <= RoundingUlps

\* map[loc] || 0 is 0
ZeroAt(map, loc) == IsZero(OrZero(map, loc))

\* map[loc] || 0 is 0 at every location
ZeroEverywhere(map) == \A loc \in LocSet : ZeroAt(map, loc)

\* the KPIs of a record whose denominator is the new members, the members,
\* the revenue, the leads
ByNewMembers(rec) == {rec.cac, rec.corpCac, rec.allInCac}

ByMembers(rec) == {rec.avgRevPerMember, rec.ltv}

ByRevenue(rec) == {rec.mktgSpendToRev, rec.corpMktgToRev, rec.allInSpendToRev}

ByLeads(rec) == {rec.costPerLead}

\* C11: for every combination of input maps, every KPI of a per-location
\* record and of the aggregate record whose denominator (new members, active
\* members, revenue or lead count, of the location or summed) is zero is
\* null, not 0; rounding leaves null null.
C11_ZeroDenominatorIsNull ==
  kpc = "returned" =>
    /\ \A loc \in LocSet :
         /\ ZeroAt(kIn.newMembers, loc) =>
              \A v \in ByNewMembers(kOut.data[loc]) : IsNull(v)
         /\ ZeroAt(kIn.memberCounts, loc) =>
              \A v \in ByMembers(kOut.data[loc]) : IsNull(v)
         /\ ZeroAt(kIn.revenue, loc) =>
              \A v \in ByRevenue(kOut.data[loc]) : IsNull(v)
         /\ ZeroAt(kIn.leads, loc) =>
              \A v \in ByLeads(kOut.data[loc]) : IsNull(v)
    /\ ZeroEverywhere(kIn.newMembers) =>
         \A v \in ByNewMembers(kOut.totals) : IsNull(v)
    /\ ZeroEverywhere(kIn.memberCounts) =>
         \A v \in ByMembers(kOut.totals) \cup {kOut.totals.avgMemberDuration} :
            IsNull(v)
    /\ ZeroEverywhere(kIn.revenue) =>
         \A v \in ByRevenue(kOut.totals) : IsNull(v)
    /\ ZeroEverywhere(kIn.leads) =>
         \A v \in ByLeads(kOut.totals) : IsNull(v)

\* C11 witness: a returned call in which a location has direct spend and no
\* new members, so that its CAC is null, another location has a CAC, and no
\* location has leads, so that the aggregate cost per lead is null
C11_Witness ==
  /\ kpc = "returned"
  /\ \E loc \in LocSet :
       /\ ZeroAt(kIn.newMembers, loc)
       /\ ~ZeroAt(kIn.mktgSpend, loc)
       /\ IsNull(kOut.data[loc].cac)
  /\ \E loc \in LocSet : ~IsNull(kOut.data[loc].cac)
  /\ ZeroEverywhere(kIn.leads)
  /\ IsNull(kOut.totals.costPerLead)
  /\ ~IsNull(kOut.totals.cac)

\* the sum over the locations of the whole numbers of a map, as an integer
RECURSIVE IntSum(_, _)
IntSum(map, n) ==
  IF n = 0 THEN 0 ELSE IntSum(map, n - 1) + ToInt(OrZero(map, LOCATIONS[n]))

\* C12: for all inputs with at least one new member, the aggregate CAC that
\* calculateKPIs returns is the sum over the locations of the direct spend
\* divided by the sum over the locations of the new members, rounded to two
\* decimals.
C12_AggregateCacIsRatioOfSums ==
  (kpc = "returned" /\ IntSum(kIn.newMembers, Len(LOCATIONS)) > 0) =>
    kOut.totals.cac =
      r2(fdiv(FromInt(IntSum(kIn.mktgSpend, Len(LOCATIONS))),
              FromInt(IntSum(kIn.newMembers, Len(LOCATIONS)))))

\* C12 witness: a returned call with new members and direct spend at two
\* locations, whose aggregate CAC is not the mean of the two CAC values
C12_Witness ==
  /\ kpc = "returned"
  /\ \A l \in SpendLocations :
       ~ZeroAt(kIn.newMembers, l) /\ ~ZeroAt(kIn.mktgSpend, l)
  /\ ~IsNull(kOut.totals.cac)
  /\ kOut.totals.cac # r2(MeanOverLocations(kOut.data, "cac"))

(***************************************************************************)
(* The claims about the utilities.                                         *)
(***************************************************************************)
Returned(fn) == udone /\ ucall.fn = fn

KnownKeys == DOMAIN KNOWN_MEMBER_COUNTS

KnownAtOrBefore(monthKey) == {k \in KnownKeys : k <= monthKey}

Latest(keys) == CHOOSE k \in keys : \A other \in keys : other <= k

Earliest(keys) == CHOOSE k \in keys : \A other \in keys : k <= other

\* C13: for a month key with no exact entry in the known member-count table,
\* getMemberCounts returns the counts of the latest known month at or before
\* the key, and the counts of the earliest known month when no known month
\* is at or before the key.
C13_NearestBeforeElseEarliest ==
  (Returned("getMemberCounts") /\ ucall.monthKey \notin KnownKeys) =>
    uret = KNOWN_MEMBER_COUNTS[
             IF KnownAtOrBefore(ucall.monthKey) # {}
             THEN Latest(KnownAtOrBefore(ucall.monthKey))
             ELSE Earliest(KnownKeys)]

\* the key of the calendar month after the month of a key
MonthAfter(key) == IF key % 100 = 12 THEN key + 89 ELSE key + 1

\* the days of a calendar month, by the calendar's rule
DaysOfMonth(key) ==
  LET y == key \div 100
      m == key % 100
  IN IF m = 2
     THEN IF y % 400 = 0 THEN 29
          ELSE IF y % 100 = 0 THEN 28
          ELSE IF y % 4 = 0 THEN 29 ELSE 28
     ELSE <<31, 0, 31, 30, 31, 30, 31, 31, 30, 31, 30, 31>>[m]

\* C14: for every monthsBack >= 1 and every current date, getMonthRange
\* returns exactly monthsBack windows, oldest first, whose keys are
\* consecutive calendar months, the last being the month just before the
\* current month, each starting on day 01 and ending on the last calendar
\* day of its month.
C14_MonthRangeWindows ==
  Returned("getMonthRange") =>
    /\ Len(uret) = ucall.monthsBack
    /\ \A j \in 1..(Len(uret) - 1) : uret[j + 1].key = MonthAfter(uret[j].key)
    /\ MonthAfter(uret[Len(uret)].key)
         = ucall.now.year * 100 + ucall.now.month + 1
    /\ \A j \in 1..Len(uret) :
         /\ uret[j].key % 100 \in 1..12
         /\ uret[j].start = uret[j].key * 100 + 1
         /\ uret[j].end = uret[j].key * 100 + DaysOfMonth(uret[j].key)

\* C14 witness: a call in March of a leap year for more than a year of
\* windows: the last window is the February of 29 days, and the range
\* crosses two year boundaries
C14_Witness ==
  /\ Returned("getMonthRange")
  /\ ucall.monthsBack > 12
  /\ uret[Len(uret)].end % 10000 = 229
  /\ uret[1].key \div 100 + 2 = ucall.now.year + 1
  /\ \E j \in 1..Len(uret) : uret[j].end % 10000 = 228

(***************************************************************************)
(* The claims about the write of the dataset file.                         *)
(***************************************************************************)
\* every window has been processed: the loop has ended
AllMonthsProcessed ==
  pc = "month" /\ idx > Len(months) /\ Len(log) = Len(months)

\* C15: the dataset file is written at most once per run and only after
\* every month window has been processed: no step of the run before the
\* write at the end of main changes the file, so that a fatal exit before
\* it leaves the previous file as it was.
C15_WrittenOnceAfterAllMonths ==
  [][/\ writes' \in {writes, writes + 1}
     /\ writes' <= 1
     /\ (file' # file \/ writes' # writes) => (AllMonthsProcessed /\ writes = 0)
     /\ (pc' = "exited" /\ ~AllMonthsProcessed) => (file' = file /\ writes' = 0)
    ]_vars

\* C15 witness: a finished run that wrote the file once, after a month was
\* reused, a month recomputed and a month's recomputation failed
C15_Witness ==
  /\ pc = "done"
  /\ writes = 1
  /\ Len(log) = Len(months)
  /\ \E j \in 1..Len(log) : RecomputeFailed(j)
  /\ \E j \in 1..Len(log) : log[j].outcome = "reused"

\* C16: the lastUpdated of the persisted dataset is the time at the end of
\* the run: it is not earlier than the time at which the last month window
\* had been processed, so no source pull of the run comes after it.
C16_LastUpdatedAtEndOfRun ==
  pc = "done" => file.value.lastUpdated >= clock

(***************************************************************************)
(* The claims about the paginated pulls.                                   *)
(***************************************************************************)
\* C17: a paginated pull keeps requesting pages until the upstream says that
\* no further page exists, and returns the items of all the pages received,
\* in page order, none dropped or duplicated: when it returns, the last
\* page served was the one that ends the pages, and the value returned is
\* the concatenation of the pages served.
C17_PullsAllPages ==
  ppc = "returned" => (pserved.end /\ pret = pserved.items)

\* C18: every pagination loop stops within a cap on its iterations: also
\* against an upstream that says on every page that more follow, the pull
\* eventually returns or fails.
C18_PaginationTerminates == <>(ppc \in {"returned", "thrown"})

\* C19: at the end of any run, for any baseline contents and any pattern of
\* source failures, the month keys with a record in the totals mapping of
\* the written dataset are exactly the month keys with a record in its data
\* mapping.
C19_TotalsKeysAreDataKeys ==
  pc = "done" => DOMAIN file.value.totals = DOMAIN file.value.data

====
